---- MODULE Spec2Model ----
(***************************************************************************)
(* A model of cime_config/cam_config.py: the ConfigCAM object, its         *)
(* registry of named configuration values (config_dict), its list of CPP   *)
(* definitions (cppdefs), its namelist-group list (nml_groups), and the    *)
(* grid classification done by the constructor.                            *)
(*                                                                         *)
(* Python strings whose characters matter (grid names, CPP definitions,    *)
(* string values) are sequences of one-character strings; registry names   *)
(* are only ever compared for equality and are TLA+ strings.               *)
(***************************************************************************)
EXTENDS Integers, Sequences, FiniteSets, TLC

VARIABLES
    case,         \* the host case handed to ConfigCAM.__init__
    phase,        \* "new" (not constructed), "ready", "failed" (__init__ raised)
    config_dict,  \* self.__config_dict : name -> configure object
    nml_groups,   \* self.__nml_groups
    cppdefs,      \* self.__cppdefs
    last,         \* the last call made on the object and how it ended
    supplied,     \* history: name -> value handed to the create_config that made it,
                  \* for the names no set_value has touched since
    cam_nml_attr_dict,  \* the attribute dictionary last handed to ccpp_phys_set
    phys_nl_pg_dict,    \* the "physics_nl" dictionary last handed to ccpp_phys_set
    build_cache         \* how often the build cache file has been written

vars == <<case, phase, config_dict, nml_groups, cppdefs, last, supplied,
          cam_nml_attr_dict, phys_nl_pg_dict, build_cache>>

----------------------------------------------------------------------------
(* Bounds of the model *)

\* add_cppdef is tried on define lists shorter than this.
MaxDefs == 4

----------------------------------------------------------------------------
(* Characters and strings *)

Digits == {"0", "1", "2", "3", "4", "5", "6", "7", "8", "9"}

DigitSeq == <<"0", "1", "2", "3", "4", "5", "6", "7", "8", "9">>

\* Python's str.isspace characters that can occur in the modelled strings.
Whitespace == {" ", "\t", "\n"}

LowerSeq == <<"a", "b", "c", "d", "e", "f", "g", "h", "i", "j", "k", "l", "m",
              "n", "o", "p", "q", "r", "s", "t", "u", "v", "w", "x", "y", "z">>

UpperSeq == <<"A", "B", "C", "D", "E", "F", "G", "H", "I", "J", "K", "L", "M",
              "N", "O", "P", "Q", "R", "S", "T", "U", "V", "W", "X", "Y", "Z">>

Max(S) == CHOOSE m \in S : \A k \in S : k <= m

Min(S) == CHOOSE m \in S : \A k \in S : m <= k

\* str.upper(), one character at a time.
UpperChar(c) ==
    IF \E i \in 1..26 : LowerSeq[i] = c
    THEN UpperSeq[CHOOSE i \in 1..26 : LowerSeq[i] = c]
    ELSE c

Upper(s) == [i \in 1..Len(s) |-> UpperChar(s[i])]

\* s[a:b] of Python for 0 <= a, with b clipped to len(s) (0-based, b exclusive).
Slice(s, a, b) == SubSeq(s, a + 1, IF b > Len(s) THEN Len(s) ELSE b)

\* s.startswith(p)
StartsWith(s, p) == Len(p) <= Len(s) /\ SubSeq(s, 1, Len(p)) = p

\* s.find(sub): the 0-based index of the first occurrence, or -1.
Find(s, sub) ==
    LET Hits == {i \in 0..(Len(s) - Len(sub)) : SubSeq(s, i + 1, i + Len(sub)) = sub}
    IN  IF Hits = {} THEN -1 ELSE Min(Hits)

\* s.strip()
Strip(s) ==
    LET Keep == {i \in 1..Len(s) : s[i] \notin Whitespace}
    IN  IF Keep = {} THEN <<>> ELSE SubSeq(s, Min(Keep), Max(Keep))

\* s.replace(c, ''), for a one-character c.
RemoveChar(s, c) == SelectSeq(s, LAMBDA ch : ch # c)

\* s.split(): the maximal runs of non-whitespace characters, in order.
RECURSIVE SplitFrom(_, _)
SplitFrom(s, i) ==
    LET Starts == {k \in i..Len(s) : s[k] \notin Whitespace}
    IN  IF Starts = {} THEN <<>>
        ELSE LET b    == Min(Starts)
                 Stops == {k \in b..Len(s) : s[k] \in Whitespace}
                 e    == IF Stops = {} THEN Len(s) + 1 ELSE Min(Stops)
             IN  <<SubSeq(s, b, e - 1)>> \o SplitFrom(s, e)

Split(s) == SplitFrom(s, 1)

\* s.split(c), for a one-character c: the pieces between the occurrences of c,
\* empty ones included.
RECURSIVE SplitOn(_, _)
SplitOn(s, c) ==
    LET Hits == {k \in 1..Len(s) : s[k] = c}
    IN  IF Hits = {} THEN <<s>>
        ELSE <<SubSeq(s, 1, Min(Hits) - 1)>>
             \o SplitOn(SubSeq(s, Min(Hits) + 1, Len(s)), c)

\* c.join(l), for a list of strings.
RECURSIVE Join(_, _)
Join(l, c) ==
    IF Len(l) = 0 THEN <<>>
    ELSE IF Len(l) = 1 THEN l[1]
    ELSE l[1] \o <<c>> \o Join(Tail(l), c)

\* The value of a decimal digit.
DigitVal(c) == (CHOOSE i \in 1..10 : DigitSeq[i] = c) - 1

RECURSIVE DigitsValue(_)
DigitsValue(s) ==
    IF s = <<>> THEN 0
    ELSE 10 * DigitsValue(SubSeq(s, 1, Len(s) - 1)) + DigitVal(s[Len(s)])

\* The digits of an integer literal: decimal digits, with single underscores
\* allowed between two of them.
IsDigits(s) ==
    /\ s # <<>>
    /\ \A i \in 1..Len(s) : s[i] \in Digits \cup {"_"}
    /\ \A i \in 1..Len(s) :
          s[i] = "_" => /\ 1 < i /\ i < Len(s)
                        /\ s[i - 1] \in Digits /\ s[i + 1] \in Digits

\* The literal behind its sign, if it has one.
IntBody(t) == IF t # <<>> /\ t[1] \in {"+", "-"} THEN Tail(t) ELSE t

\* The digits of a literal without the underscores between them.
RECURSIVE IntDigits(_)
IntDigits(b) ==
    IF b = <<>> THEN <<>>
    ELSE IF Head(b) = "_" THEN IntDigits(Tail(b))
    ELSE <<Head(b)>> \o IntDigits(Tail(b))

\* int(t) for a string without white space around it.
IntLiteral(t) ==
    IF IsDigits(IntBody(t))
    THEN [ok |-> TRUE,
          v |-> IF t[1] = "-" THEN 0 - DigitsValue(IntDigits(IntBody(t)))
                ELSE DigitsValue(IntDigits(IntBody(t)))]
    ELSE [ok |-> FALSE, v |-> 0]

\* int(s) for a string over the modelled characters: white space around the
\* literal is dropped, one sign may lead it, underscores between digits are
\* skipped; ValueError for anything else.
PyInt(s) == IntLiteral(Strip(s))

\* str(n) of an integer.
RECURSIVE IntToStr(_)
IntToStr(n) ==
    IF n < 0 THEN <<"-">> \o IntToStr(0 - n)
    ELSE IF n < 10 THEN <<DigitSeq[n + 1]>>
    ELSE IntToStr(n \div 10) \o <<DigitSeq[(n % 10) + 1]>>

----------------------------------------------------------------------------
(* Python values, tagged by their type *)

\* (Each kind keeps its payload in a field of its own, so that values of different
\* kinds are unequal rather than incomparable.)
IntV(i)  == [kind |-> "int", i |-> i]
StrV(s)  == [kind |-> "str", s |-> s]
ListV(l) == [kind |-> "list", l |-> l]
DictV    == [kind |-> "dict"]
NoneV    == [kind |-> "none"]

\* "{}".format(value) for an integer or a string.
FormatValue(val) == IF val.kind = "int" THEN IntToStr(val.i) ELSE val.s

----------------------------------------------------------------------------
(* Regular expressions: the part of Python's re that cam_config.py uses.    *)
(* A pattern is a sequence of items: a character class with a quantifier,   *)
(* a group of alternatives (optional or not), or the end anchor $.          *)

Cls(S, q)   == [t |-> "cls", cls |-> S, neg |-> FALSE, q |-> q]
Dot(q)      == [t |-> "cls", cls |-> {"\n"}, neg |-> TRUE, q |-> q]
Lit(c)      == Cls({c}, "1")
LitSeq(s)   == [i \in 1..Len(s) |-> Lit(s[i])]
Grp(alts, q) == [t |-> "grp", alts |-> alts, q |-> q]
Eol         == [t |-> "eol"]

InCls(c, item) == IF item.neg THEN c \notin item.cls ELSE c \in item.cls

\* One more character of the class, from each position of P.
ClsStep(item, s, P) == {p + 1 : p \in {q \in P : q < Len(s) /\ InCls(s[q + 1], item)}}

RECURSIVE ClsStar(_, _, _)
ClsStar(item, s, P) ==
    LET N == P \cup ClsStep(item, s, P)
    IN  IF N = P THEN P ELSE ClsStar(item, s, N)

RECURSIVE Ends(_, _, _)
RECURSIVE ItemEnds(_, _, _)

\* The positions (characters consumed) at which a match of `item` can end when it
\* starts at a position of P.
ItemEnds(item, s, P) ==
    IF item.t = "cls" THEN
        IF item.q = "1" THEN ClsStep(item, s, P)
        ELSE IF item.q = "+" THEN ClsStar(item, s, ClsStep(item, s, P))
        ELSE ClsStar(item, s, P)
    ELSE IF item.t = "grp" THEN
        LET R == UNION {Ends(item.alts[k], s, P) : k \in 1..Len(item.alts)}
        IN  IF item.q = "?" THEN P \cup R ELSE R
    ELSE \* $ : the end of the string, or just before a newline that ends it
        {p \in P : p = Len(s) \/ (p = Len(s) - 1 /\ s[Len(s)] = "\n")}

Ends(pat, s, P) ==
    IF Len(pat) = 0 THEN P
    ELSE Ends(Tail(pat), s, ItemEnds(Head(pat), s, P))

\* re.match(pat, s) is not None: pat matches a prefix of s.
ReMatch(pat, s) == Ends(pat, s, {0}) # {}

----------------------------------------------------------------------------
(* Errors.  kind names the failure; what carries the datum the message names. *)

NoErr == [kind |-> "none", what |-> <<>>]

Err(kind, what) == [kind |-> kind, what |-> what]

\* The Python exception class of each failure cam_config.py raises itself.
ErrClass(kind) ==
    CASE kind = "TypeMismatch"    -> "CamConfigTypeError"
      [] kind = "DuplicateName"   -> "CamConfigValError"
      [] kind = "UnknownName"     -> "CamConfigValError"
      [] kind = "DuplicateDefine" -> "CamConfigValError"
      [] kind = "InvalidDycore"   -> "CamConfigValError"
      [] kind = "UnknownGrid"     -> "CamConfigValError"
      [] kind = "DycoreMismatch"  -> "CamConfigValError"
      [] kind = "ValueError"      -> "ValueError"
      [] kind = "SuiteNotFound"   -> "CamConfigValError"
      [] kind = "SuiteRequired"   -> "CamConfigValError"
      [] kind = "NameError"       -> "NameError"
      [] OTHER                    -> "other"

----------------------------------------------------------------------------
(* The configure objects of cam_config_classes (ConfigInteger, ConfigString, *)
(* ConfigList).  That module is not part of the source at hand: these       *)
(* definitions follow the specification's section 4.1.                      *)

\* valid_vals: None, a list of allowed values, a range (lo, hi or None), a pattern.
VNone         == [t |-> "none"]
VList(S)      == [t |-> "list", vals |-> S]
VRange(lo)    == [t |-> "range", lo |-> lo, bounded |-> FALSE, hi |-> 0]
VRangeTo(lo, hi) == [t |-> "range", lo |-> lo, bounded |-> TRUE, hi |-> hi]
VRegex(pat)   == [t |-> "regex", re |-> pat]

\* Whether val satisfies valid_vals (section 4.1, "validation semantics by spec kind").
Validates(val, valid) ==
    CASE valid.t = "none"  -> TRUE
      [] valid.t = "list"  -> val \in valid.vals
      [] valid.t = "range" -> /\ val.kind = "int"
                              /\ valid.lo <= val.i
                              /\ (valid.bounded => val.i <= valid.hi)
      [] valid.t = "regex" -> val.kind = "str" /\ ReMatch(valid.re, val.s)

\* Whether every element of a list value has the elementary type valid_type.
ListValidates(val, valid_type) ==
    valid_type = "none" \/ \A i \in 1..Len(val.l) : val.l[i].kind = valid_type

\* ConfigInteger(...), ConfigString(...), ConfigList(...): the object, or the
\* validation error of a value that violates its constraint.
NewConfigObject(cls, val, valid_vals, valid_type, is_nml_attr) ==
    LET ok == IF cls = "ConfigList"
              THEN ListValidates(val, valid_type) /\ Validates(val, valid_vals)
              ELSE Validates(val, valid_vals)
    IN  IF ok
        THEN [err |-> NoErr,
              obj |-> [cls |-> cls, value |-> val, valid_vals |-> valid_vals,
                       valid_type |-> valid_type, is_nml_attr |-> is_nml_attr]]
        ELSE [err |-> Err("Validation", val), obj |-> <<>>]

\* The value kind each configure object holds.
KindOf(cls) ==
    CASE cls = "ConfigInteger" -> "int"
      [] cls = "ConfigString"  -> "str"
      [] cls = "ConfigList"    -> "list"

\* obj.set_value(val): re-validates as construction does; on failure the prior
\* value is kept.
ObjSetValue(obj, val) ==
    IF val.kind # KindOf(obj.cls)
    THEN [err |-> Err("TypeMismatch", val), obj |-> obj]
    ELSE IF ~Validates(val, obj.valid_vals)
    THEN [err |-> Err("Validation", val), obj |-> obj]
    ELSE [err |-> NoErr, obj |-> [obj EXCEPT !.value = val]]

----------------------------------------------------------------------------
(* The object under construction or in use: the three fields the methods    *)
(* change, and the error that stopped the current call, if any.             *)

Obj(cd, ng, cpp, err) ==
    [config_dict |-> cd, nml_groups |-> ng, cppdefs |-> cpp, err |-> err]

Failed(o) == o.err.kind # "none"


Raise(o, err) == [o EXCEPT !.err = err]

EmptyDict == [n \in {} |-> <<>>]

\* self.__config_dict[name] = conf_obj
DictPut(cd, name, obj) ==
    [n \in DOMAIN cd \cup {name} |-> IF n = name THEN obj ELSE cd[n]]

\* create_config without the check of the name: an existing entry is overwritten.
create_config_overwrite(o, name, val, valid_vals, valid_list_type, is_nml_attr) ==
    IF val.kind \notin {"int", "str", "list"}
    THEN Raise(o, Err("TypeMismatch", name))
    ELSE LET cls == CASE val.kind = "int"  -> "ConfigInteger"
                      [] val.kind = "str"  -> "ConfigString"
                      [] val.kind = "list" -> "ConfigList"
             made == NewConfigObject(cls, val, valid_vals,
                                     IF cls = "ConfigList" THEN valid_list_type ELSE "none",
                                     IF cls = "ConfigList" THEN FALSE ELSE is_nml_attr)
         IN  IF made.err.kind # "none" THEN Raise(o, made.err)
             ELSE [o EXCEPT !.config_dict = DictPut(o.config_dict, name, made.obj)]

\* create_config that keeps a list value without its first element.
create_config_lossy(o, name, val, valid_vals, valid_list_type, is_nml_attr) ==
    IF val.kind \notin {"int", "str", "list"}
    THEN Raise(o, Err("TypeMismatch", name))
    ELSE LET cls == CASE val.kind = "int"  -> "ConfigInteger"
                      [] val.kind = "str"  -> "ConfigString"
                      [] val.kind = "list" -> "ConfigList"
             made == NewConfigObject(cls, val, valid_vals,
                                     IF cls = "ConfigList" THEN valid_list_type ELSE "none",
                                     IF cls = "ConfigList" THEN FALSE ELSE is_nml_attr)
             kept == IF cls = "ConfigList" /\ made.err.kind = "none"
                     THEN [made.obj EXCEPT !.value = ListV(Tail(val.l))]
                     ELSE made.obj
         IN  IF made.err.kind # "none" THEN Raise(o, made.err)
             ELSE IF name \in DOMAIN o.config_dict
             THEN Raise(o, Err("DuplicateName", name))
             ELSE [o EXCEPT !.config_dict = DictPut(o.config_dict, name, kept)]

\* create_config that looks the name up before it looks at the value's type.
create_config_namefirst(o, name, val, valid_vals, valid_list_type, is_nml_attr) ==
    IF name \in DOMAIN o.config_dict
    THEN Raise(o, Err("DuplicateName", name))
    ELSE IF val.kind \notin {"int", "str", "list"}
    THEN Raise(o, Err("TypeMismatch", name))
    ELSE LET cls == CASE val.kind = "int"  -> "ConfigInteger"
                      [] val.kind = "str"  -> "ConfigString"
                      [] val.kind = "list" -> "ConfigList"
             made == NewConfigObject(cls, val, valid_vals,
                                     IF cls = "ConfigList" THEN valid_list_type ELSE "none",
                                     IF cls = "ConfigList" THEN FALSE ELSE is_nml_attr)
         IN  IF made.err.kind # "none" THEN Raise(o, made.err)
             ELSE [o EXCEPT !.config_dict = DictPut(o.config_dict, name, made.obj)]

\* ConfigCAM.create_config: the object after the call; err is what it raised.
create_config(o, name, val, valid_vals, valid_list_type, is_nml_attr) ==
    IF val.kind \notin {"int", "str", "list"}
    THEN Raise(o, Err("TypeMismatch", name))
    ELSE LET cls == CASE val.kind = "int"  -> "ConfigInteger"
                      [] val.kind = "str"  -> "ConfigString"
                      [] val.kind = "list" -> "ConfigList"
             made == NewConfigObject(cls, val, valid_vals,
                                     IF cls = "ConfigList" THEN valid_list_type ELSE "none",
                                     IF cls = "ConfigList" THEN FALSE ELSE is_nml_attr)
         IN  IF made.err.kind # "none" THEN Raise(o, made.err)
             ELSE IF name \in DOMAIN o.config_dict
             THEN Raise(o, Err("DuplicateName", name))
             ELSE [o EXCEPT !.config_dict = DictPut(o.config_dict, name, made.obj)]

\* set_value that looks at the value's type before it looks the name up.
set_value_typefirst(o, obj_name, val) ==
    IF val.kind \notin {"int", "str"}
    THEN Raise(o, Err("TypeMismatch", obj_name))
    ELSE IF obj_name \notin DOMAIN o.config_dict
    THEN Raise(o, Err("UnknownName", obj_name))
    ELSE LET r == ObjSetValue(o.config_dict[obj_name], val)
         IN  IF r.err.kind # "none" THEN Raise(o, r.err)
             ELSE [o EXCEPT !.config_dict = DictPut(o.config_dict, obj_name, r.obj)]

\* ConfigCAM.set_value
set_value(o, obj_name, val) ==
    IF obj_name \notin DOMAIN o.config_dict
    THEN Raise(o, Err("UnknownName", obj_name))
    ELSE IF val.kind \notin {"int", "str"}
    THEN Raise(o, Err("TypeMismatch", obj_name))
    ELSE LET r == ObjSetValue(o.config_dict[obj_name], val)
         IN  IF r.err.kind # "none" THEN Raise(o, r.err)
             ELSE [o EXCEPT !.config_dict = DictPut(o.config_dict, obj_name, r.obj)]

\* ConfigCAM.get_value: the value returned, or the error raised.
get_value(cd, obj_name) ==
    IF obj_name \in DOMAIN cd
    THEN [err |-> NoErr, ret |-> cd[obj_name].value]
    ELSE [err |-> Err("UnknownName", obj_name), ret |-> NoneV]

\* The pattern add_cppdef compiles: "-D" + cppname + "($|=)".  cppname is a
\* preprocessor symbol (letters, digits, underscores): each of its characters
\* stands for itself in the pattern.
CheckStr(cppname) == <<"-", "D">> \o cppname

\* The pattern without its "($|=)" tail: any entry that starts with "-D" + cppname.
CppdefPattern_prefix(cppname) == LitSeq(CheckStr(cppname))

CppdefPattern(cppname) ==
    LitSeq(CheckStr(cppname)) \o <<Grp(<< <<Eol>>, <<Lit("=")>> >>, "1")>>

\* Whether some entry of the define list already sets cppname.
CppdefIsSet(cpp, cppname) ==
    \E i \in 1..Len(cpp) : ReMatch(CppdefPattern(cppname), Strip(cpp[i]))

\* The entry appended for (cppname, value); value None gives the bare flag.
CppStr(cppname, value) ==
    IF value.kind = "none" THEN CheckStr(cppname)
    ELSE CheckStr(cppname) \o <<"=">> \o FormatValue(value)

\* add_cppdef that puts the new entry at the front of the list.
add_cppdef_front(o, cppname, value) ==
    IF CppdefIsSet(o.cppdefs, cppname)
    THEN Raise(o, Err("DuplicateDefine", Upper(cppname)))
    ELSE [o EXCEPT !.cppdefs = <<CppStr(cppname, value)>> \o o.cppdefs]

\* ConfigCAM.add_cppdef
add_cppdef(o, cppname, value) ==
    IF CppdefIsSet(o.cppdefs, cppname)
    THEN Raise(o, Err("DuplicateDefine", Upper(cppname)))
    ELSE [o EXCEPT !.cppdefs = Append(o.cppdefs, CppStr(cppname, value))]

\* self.__nml_groups.append(group)
nml_append(o, group) == [o EXCEPT !.nml_groups = Append(o.nml_groups, group)]

----------------------------------------------------------------------------
(* String constants of ConfigCAM.__init__ *)

S_eul   == <<"e", "u", "l">>
S_fv    == <<"f", "v">>
S_se    == <<"s", "e">>
S_fv3   == <<"f", "v", "3">>
S_mpas  == <<"m", "p", "a", "s">>
S_none  == <<"n", "o", "n", "e">>
S_null  == <<"n", "u", "l", "l">>
S_UNSET == <<"U", "N", "S", "E", "T">>
S_ne30pg3     == <<"n", "e", "3", "0", "p", "g", "3">>
S_ne30np4_pg3 == <<"n", "e", "3", "0", "n", "p", "4", ".", "p", "g", "3">>
S_se_dycore   == <<"s", "e", "/", "d", "y", "c", "o", "r", "e">>
S_REAL32 == <<"R", "E", "A", "L", "3", "2">>
S_REAL64 == <<"R", "E", "A", "L", "6", "4">>
S_docn == <<"d", "o", "c", "n">>
S_dom  == <<"d", "o", "m">>
S_som  == <<"s", "o", "m">>
S_socn == <<"s", "o", "c", "n">>
S_aquaplanet == <<"a", "q", "u", "a", "p", "l", "a", "n", "e", "t">>
S_pop  == <<"p", "o", "p">>
S_mom  == <<"m", "o", "m">>
S__MPI    == <<"_", "M", "P", "I">>
S_SPMD    == <<"S", "P", "M", "D">>
S__OPENMP == <<"_", "O", "P", "E", "N", "M", "P">>
S_NP      == <<"N", "P">>
S_ANALYTIC_IC == <<"A", "N", "A", "L", "Y", "T", "I", "C", "_", "I", "C">>

dyn_valid_vals == VList({StrV(S_eul), StrV(S_fv), StrV(S_se), StrV(S_fv3),
                         StrV(S_mpas), StrV(S_none)})

ocn_valid_vals == VList({StrV(S_docn), StrV(S_dom), StrV(S_som), StrV(S_socn),
                         StrV(S_aquaplanet), StrV(S_pop), StrV(S_mom)})

kind_valid_vals == VList({StrV(S_REAL32), StrV(S_REAL64)})

default_nml_groups == <<"cam_initfiles_nl", "cam_logfile_nl", "physics_nl",
                        "qneg_nl", "vert_coord_nl", "ref_pres_nl">>

----------------------------------------------------------------------------
(* The grid patterns *)

\* [TC][0-9]+: the Eulerian pattern taking the names of FV3 grids too.
eul_grid_re_wide == <<Cls({"T", "C"}, "1"), Cls(Digits, "+")>>

\* T[0-9]+
eul_grid_re == <<Lit("T"), Cls(Digits, "+")>>

\* [0-9][0-9.]*x[0-9][0-9.]*
fv_grid_re == <<Cls(Digits, "1"), Cls(Digits \cup {"."}, "*"), Lit("x"),
                Cls(Digits, "1"), Cls(Digits \cup {"."}, "*")>>

\* ne[0-9]+np[1-8](.*)(pg[1-9])?
se_grid_re == <<Lit("n"), Lit("e"), Cls(Digits, "+"), Lit("n"), Lit("p"),
                Cls(Digits \ {"0", "9"}, "1"),
                Grp(<< <<Dot("*")>> >>, "1"),
                Grp(<< <<Lit("p"), Lit("g"), Cls(Digits \ {"0"}, "1")>> >>, "?")>>

\* C[0-9]+
fv3_grid_re == <<Lit("C"), Cls(Digits, "+")>>

\* mpasa[0-9]+
mpas_grid_re == <<Lit("m"), Lit("p"), Lit("a"), Lit("s"), Lit("a"), Cls(Digits, "+")>>

\* The hard-wired translation of the one legacy grid name.
TranslateAlias(atm_grid) ==
    IF atm_grid = S_ne30pg3 THEN S_ne30np4_pg3 ELSE atm_grid

\* re.match(r'(.+)z(\d+)', atm_grid) and its first group: the greedy (.+) is the
\* longest non-empty prefix that a 'z' and at least one digit follow.
StripLevels(atm_grid) ==
    LET Cuts == {p \in Ends(<<Dot("+")>>, atm_grid, {0}) :
                    Ends(<<Lit("z"), Cls(Digits, "+")>>, atm_grid, {p}) # {}}
    IN  IF Cuts = {} THEN atm_grid ELSE SubSeq(atm_grid, 1, Max(Cuts))

\* The cascade without its branch for the "null" grid.
GridBranch_nonull(atm_grid) ==
    IF ReMatch(fv_grid_re, atm_grid) THEN "fv"
    ELSE IF ReMatch(se_grid_re, atm_grid) THEN "se"
    ELSE IF ReMatch(fv3_grid_re, atm_grid) THEN "fv3"
    ELSE IF ReMatch(mpas_grid_re, atm_grid) THEN "mpas"
    ELSE IF ReMatch(eul_grid_re, atm_grid) THEN "eul"
    ELSE "unknown"

\* The cascade with each pattern required to match the whole name, not a prefix.
GridBranch_full(atm_grid) ==
    IF Len(atm_grid) \in Ends(fv_grid_re, atm_grid, {0}) THEN "fv"
    ELSE IF Len(atm_grid) \in Ends(se_grid_re, atm_grid, {0}) THEN "se"
    ELSE IF Len(atm_grid) \in Ends(fv3_grid_re, atm_grid, {0}) THEN "fv3"
    ELSE IF Len(atm_grid) \in Ends(mpas_grid_re, atm_grid, {0}) THEN "mpas"
    ELSE IF Len(atm_grid) \in Ends(eul_grid_re, atm_grid, {0}) THEN "eul"
    ELSE IF atm_grid = S_null THEN "null"
    ELSE "unknown"

\* The branch of the if/elif cascade the grid name takes.
GridBranch(atm_grid) ==
    IF ReMatch(fv_grid_re, atm_grid) THEN "fv"
    ELSE IF ReMatch(se_grid_re, atm_grid) THEN "se"
    ELSE IF ReMatch(fv3_grid_re, atm_grid) THEN "fv3"
    ELSE IF ReMatch(mpas_grid_re, atm_grid) THEN "mpas"
    ELSE IF ReMatch(eul_grid_re, atm_grid) THEN "eul"
    ELSE IF atm_grid = S_null THEN "null"
    ELSE "unknown"

(* The statements of a method body, as data: the calls it makes on self, in    *)
(* order.  RunSteps executes them one after the other and stops at the first   *)
(* that raises.                                                                *)

DoCreate(name, val, valid_vals, valid_list_type, is_nml_attr) ==
    [op |-> "create_config", name |-> name, val |-> val, valid_vals |-> valid_vals,
     valid_list_type |-> valid_list_type, is_nml_attr |-> is_nml_attr]

DoCppdef(cppname, value) == [op |-> "add_cppdef", cppname |-> cppname, value |-> value]

DoNmlAppend(group) == [op |-> "nml_append", group |-> group]

DoRaise(err) == [op |-> "raise", err |-> err]

DoCheckUserDyn(user_dyn_opt) == [op |-> "check_user_dyn", user_dyn_opt |-> user_dyn_opt]

DoSetGridDims(atm_grid, case_nx, case_ny) ==
    [op |-> "set_grid_dims", atm_grid |-> atm_grid, case_nx |-> case_nx,
     case_ny |-> case_ny]

\* The cascade with the OpenMP define for every thread count.
ClassifyGrid_openmp(atm_grid, nthrds) ==
    LET b == GridBranch(atm_grid)
    IN  CASE b = "fv" ->
               <<DoCreate("dyn", StrV(S_fv), dyn_valid_vals, "none", TRUE),
                 DoCreate("hgrid", StrV(atm_grid), VRegex(fv_grid_re), "none", TRUE)>>
          [] b = "se" ->
               <<DoCreate("dyn", StrV(S_se), dyn_valid_vals, "none", TRUE),
                 DoCreate("hgrid", StrV(atm_grid), VRegex(se_grid_re), "none", TRUE),
                 DoCreate("dyn_src_dirs", ListV(<<StrV(S_se), StrV(S_se_dycore)>>),
                          VNone, "str", FALSE),
                 DoNmlAppend("air_composition_nl"),
                 DoNmlAppend("dyn_se_nl"),
                 DoCppdef(S__MPI, NoneV),
                 DoCppdef(S_SPMD, NoneV)>>
               \o (IF nthrds > 0 THEN <<DoCppdef(S__OPENMP, NoneV)>> ELSE <<>>)
          [] b = "fv3" ->
               <<DoCreate("dyn", StrV(S_fv3), dyn_valid_vals, "none", TRUE),
                 DoCreate("hgrid", StrV(atm_grid), VRegex(fv3_grid_re), "none", TRUE)>>
          [] b = "mpas" ->
               <<DoCreate("dyn", StrV(S_mpas), dyn_valid_vals, "none", TRUE),
                 DoCreate("hgrid", StrV(atm_grid), VRegex(mpas_grid_re), "none", TRUE)>>
          [] b = "eul" ->
               <<DoCreate("dyn", StrV(S_eul), dyn_valid_vals, "none", TRUE),
                 DoCreate("hgrid", StrV(atm_grid), VRegex(eul_grid_re), "none", TRUE),
                 DoCreate("trm", IntV(1), VRange(1), "none", FALSE),
                 DoCreate("trn", IntV(1), VRange(1), "none", FALSE),
                 DoCreate("trk", IntV(1), VRange(1), "none", FALSE)>>
          [] b = "null" ->
               <<DoCreate("dyn", StrV(S_none), dyn_valid_vals, "none", TRUE),
                 DoCreate("hgrid", StrV(atm_grid), VNone, "none", TRUE),
                 DoCreate("dyn_src_dirs", ListV(<<StrV(S_none)>>), VNone, "str", FALSE)>>
          [] OTHER -> <<DoRaise(Err("UnknownGrid", atm_grid))>>

\* The cascade: register dyn and hgrid, and what else the chosen core needs.
ClassifyGrid(atm_grid, nthrds) ==
    LET b == GridBranch(atm_grid)
    IN  CASE b = "fv" ->
               <<DoCreate("dyn", StrV(S_fv), dyn_valid_vals, "none", TRUE),
                 DoCreate("hgrid", StrV(atm_grid), VRegex(fv_grid_re), "none", TRUE)>>
          [] b = "se" ->
               <<DoCreate("dyn", StrV(S_se), dyn_valid_vals, "none", TRUE),
                 DoCreate("hgrid", StrV(atm_grid), VRegex(se_grid_re), "none", TRUE),
                 DoCreate("dyn_src_dirs", ListV(<<StrV(S_se), StrV(S_se_dycore)>>),
                          VNone, "str", FALSE),
                 DoNmlAppend("air_composition_nl"),
                 DoNmlAppend("dyn_se_nl"),
                 DoCppdef(S__MPI, NoneV),
                 DoCppdef(S_SPMD, NoneV)>>
               \o (IF nthrds > 1 THEN <<DoCppdef(S__OPENMP, NoneV)>> ELSE <<>>)
          [] b = "fv3" ->
               <<DoCreate("dyn", StrV(S_fv3), dyn_valid_vals, "none", TRUE),
                 DoCreate("hgrid", StrV(atm_grid), VRegex(fv3_grid_re), "none", TRUE)>>
          [] b = "mpas" ->
               <<DoCreate("dyn", StrV(S_mpas), dyn_valid_vals, "none", TRUE),
                 DoCreate("hgrid", StrV(atm_grid), VRegex(mpas_grid_re), "none", TRUE)>>
          [] b = "eul" ->
               <<DoCreate("dyn", StrV(S_eul), dyn_valid_vals, "none", TRUE),
                 DoCreate("hgrid", StrV(atm_grid), VRegex(eul_grid_re), "none", TRUE),
                 DoCreate("trm", IntV(1), VRange(1), "none", FALSE),
                 DoCreate("trn", IntV(1), VRange(1), "none", FALSE),
                 DoCreate("trk", IntV(1), VRange(1), "none", FALSE)>>
          [] b = "null" ->
               <<DoCreate("dyn", StrV(S_none), dyn_valid_vals, "none", TRUE),
                 DoCreate("hgrid", StrV(atm_grid), VNone, "none", TRUE),
                 DoCreate("dyn_src_dirs", ListV(<<StrV(S_none)>>), VNone, "str", FALSE)>>
          [] OTHER -> <<DoRaise(Err("UnknownGrid", atm_grid))>>

\* The constructor without the check of --dyn against the grid.
CheckUserDyn_off(o, user_dyn_opt) == <<>>

\* The check of the user's --dyn against the dycore the grid gave.
CheckUserDyn(o, user_dyn_opt) ==
    LET dyn == get_value(o.config_dict, "dyn").ret.s
    IN  IF user_dyn_opt # <<>> /\ user_dyn_opt # dyn
        THEN <<DoRaise(Err("DycoreMismatch", <<user_dyn_opt, dyn>>))>>
        ELSE <<>>

\* The decoding with csne read from one character too far to the right.
SeDecode_skip(atm_grid) ==
    LET np_idx == Find(atm_grid, <<"n", "p">>)
        pg_idx == Find(atm_grid, <<".", "p", "g">>)
        csne   == PyInt(Slice(atm_grid, 3, np_idx))
        csnp   == IF pg_idx > -1 THEN PyInt(Slice(atm_grid, np_idx + 2, pg_idx))
                  ELSE PyInt(Slice(atm_grid, np_idx + 2, Len(atm_grid)))
        npg    == IF pg_idx > -1 THEN PyInt(Slice(atm_grid, pg_idx + 3, Len(atm_grid)))
                  ELSE [ok |-> TRUE, v |-> 0]
    IN  [ok |-> csne.ok /\ csnp.ok /\ npg.ok,
         csne |-> csne.v, csnp |-> csnp.v, npg |-> npg.v]

\* The cubed-sphere values read off the grid name by offsets.
SeDecode(atm_grid) ==
    LET np_idx == Find(atm_grid, <<"n", "p">>)
        pg_idx == Find(atm_grid, <<".", "p", "g">>)
        csne   == PyInt(Slice(atm_grid, 2, np_idx))
        csnp   == IF pg_idx > -1 THEN PyInt(Slice(atm_grid, np_idx + 2, pg_idx))
                  ELSE PyInt(Slice(atm_grid, np_idx + 2, Len(atm_grid)))
        npg    == IF pg_idx > -1 THEN PyInt(Slice(atm_grid, pg_idx + 3, Len(atm_grid)))
                  ELSE [ok |-> TRUE, v |-> 0]
    IN  [ok |-> csne.ok /\ csnp.ok /\ npg.ok,
         csne |-> csne.v, csnp |-> csnp.v, npg |-> npg.v]

\* The horizontal dimension variables: csne, csnp, npg and the NP define for the
\* spectral-element core, nlat and nlon for every other.
SetGridDims(o, atm_grid, case_nx, case_ny) ==
    IF get_value(o.config_dict, "dyn").ret.s = S_se
    THEN LET d == SeDecode(atm_grid)
         IN  IF ~d.ok THEN <<DoRaise(Err("ValueError", atm_grid))>>
             ELSE <<DoCreate("csne", IntV(d.csne), VNone, "none", TRUE),
                    DoCreate("csnp", IntV(d.csnp), VNone, "none", FALSE),
                    DoCreate("npg", IntV(d.npg), VNone, "none", TRUE),
                    DoCppdef(S_NP, IntV(d.csnp))>>
    ELSE <<DoCreate("nlat", case_ny, VNone, "none", FALSE),
           DoCreate("nlon", case_nx, VNone, "none", FALSE)>>

\* The analytic initial conditions switch.
SetAnalyticIC(analytic_ic) ==
    (IF analytic_ic
     THEN <<DoNmlAppend("analytic_ic_nl"), DoCppdef(S_ANALYTIC_IC, NoneV)>>
     ELSE <<>>)
    \o <<DoCreate("analytic_ic", IntV(IF analytic_ic THEN 1 ELSE 0),
                  VList({IntV(0), IntV(1)}), "none", TRUE)>>

RECURSIVE RunSteps(_, _)

\* One statement, on an object no earlier statement has failed.
Step(o, st) ==
    CASE st.op = "create_config" ->
           create_config(o, st.name, st.val, st.valid_vals, st.valid_list_type,
                         st.is_nml_attr)
      [] st.op = "add_cppdef" -> add_cppdef(o, st.cppname, st.value)
      [] st.op = "nml_append" -> nml_append(o, st.group)
      [] st.op = "raise" -> Raise(o, st.err)
      [] st.op = "check_user_dyn" -> RunSteps(o, CheckUserDyn(o, st.user_dyn_opt))
      [] st.op = "set_grid_dims" ->
           RunSteps(o, SetGridDims(o, st.atm_grid, st.case_nx, st.case_ny))

\* The statements in order, each on the object its predecessor left; nothing runs
\* after a statement that raised.
RunSteps(o, steps) ==
    IF Len(steps) = 0 \/ Failed(o) THEN o
    ELSE CHOOSE r \in {RunSteps(x, Tail(steps)) : x \in {Step(o, Head(steps))}} : TRUE

\* The CPP definitions the case brings: CAM_CPPDEFS split on whitespace, and the
\* empty list when that is the single word UNSET.
SeedCppdefs(cam_cppdefs) ==
    LET l == SelectSeq(Split(cam_cppdefs), LAMBDA x : x # <<>>)
    IN  IF Len(l) = 1 /\ \E i \in 1..Len(l) : l[i] = S_UNSET THEN <<>> ELSE l

\* ConfigCAM.__init__: the object's fields when it returns, or when it raises (err).
ConfigCAM_init(c) ==
    LET cpp       == SeedCppdefs(c.CAM_CPPDEFS)
        stripped  == StripLevels(TranslateAlias(c.ATM_GRID))
        dyn_opt   == c.opts.dyn
        atm_grid  == IF dyn_opt = S_none THEN S_null ELSE stripped
        case_nx   == IF dyn_opt = S_none THEN StrV(S_null) ELSE IntV(c.ATM_NX)
        case_ny   == IF dyn_opt = S_none THEN StrV(S_null) ELSE IntV(c.ATM_NY)
    IN  IF dyn_opt # <<>> /\ StrV(dyn_opt) \notin dyn_valid_vals.vals
        THEN Obj(EmptyDict, <<>>, cpp, Err("InvalidDycore", dyn_opt))
        ELSE RunSteps(Obj(EmptyDict, default_nml_groups, cpp, NoErr),
                 <<DoCreate("ic_ymd", StrV(RemoveChar(c.RUN_STARTDATE, "-")),
                            VNone, "none", TRUE),
                   DoCreate("debug", IntV(IF c.DEBUG THEN 1 ELSE 0), VNone, "none", TRUE),
                   DoCreate("pcols", IntV(16), VRange(1), "none", TRUE),
                   DoCreate("psubcols", IntV(1), VRange(1), "none", TRUE)>>
                 \o ClassifyGrid(atm_grid, c.NTHRDS_ATM)
                 \o <<DoCheckUserDyn(dyn_opt),
                      DoSetGridDims(atm_grid, case_nx, case_ny)>>
                 \o SetAnalyticIC(c.opts.analytic_ic)
                 \o <<DoCreate("ocn", StrV(c.COMP_OCN), ocn_valid_vals, "none", TRUE),
                      DoCreate("physics_suites", StrV(c.opts.physics_suites),
                               VNone, "none", FALSE),
                      DoCreate("dyn_kind", StrV(c.opts.dyn_kind), kind_valid_vals,
                               "none", FALSE),
                      DoCreate("phys_kind", StrV(c.opts.phys_kind), kind_valid_vals,
                               "none", FALSE)>>)

----------------------------------------------------------------------------
(* ConfigCAM.ccpp_phys_set *)

\* phys_nl_pg_dict, of which only ['physics_suite']['values'] is read or written.
PhysNl(values) == [physics_suite |-> [values |-> values]]

\* What a call of ccpp_phys_set leaves behind: the exception, if any, and the
\* two dictionaries it was given.
PhysOut(err, attr_dict, nl_dict) ==
    [err |-> err, cam_nml_attr_dict |-> attr_dict, phys_nl_pg_dict |-> nl_dict]

\* The branch for one suite, comparing with the suite as it is listed.
ccpp_one_suite_raw(phys_suites, phys_nl_val, attr_dict, nl_dict) ==
    IF phys_nl_val # S_UNSET
    THEN IF phys_nl_val = phys_suites[1]
         THEN PhysOut(NoErr, DictPut(attr_dict, "phys_suite", Strip(phys_suites[1])), nl_dict)
         ELSE PhysOut(Err("NameError", "user_nl_pg_dict"), attr_dict, nl_dict)
    ELSE PhysOut(NoErr, DictPut(attr_dict, "phys_suite", Strip(phys_suites[1])),
                 PhysNl(Strip(phys_suites[1])))

\* The branch for one suite, leaving the namelist value alone.
ccpp_one_suite_attr_only(phys_suites, phys_nl_val, attr_dict, nl_dict) ==
    IF phys_nl_val # S_UNSET
    THEN IF phys_nl_val = Strip(phys_suites[1])
         THEN PhysOut(NoErr, DictPut(attr_dict, "phys_suite", Strip(phys_suites[1])), nl_dict)
         ELSE PhysOut(Err("NameError", "user_nl_pg_dict"), attr_dict, nl_dict)
    ELSE PhysOut(NoErr, DictPut(attr_dict, "phys_suite", Strip(phys_suites[1])), nl_dict)

\* if len(phys_suites) == 1: the format of the error message evaluates the name
\* user_nl_pg_dict, which is bound nowhere.
ccpp_one_suite(phys_suites, phys_nl_val, attr_dict, nl_dict) ==
    IF phys_nl_val # S_UNSET
    THEN IF phys_nl_val = Strip(phys_suites[1])
         THEN PhysOut(NoErr, DictPut(attr_dict, "phys_suite", Strip(phys_suites[1])), nl_dict)
         ELSE PhysOut(Err("NameError", "user_nl_pg_dict"), attr_dict, nl_dict)
    ELSE PhysOut(NoErr, DictPut(attr_dict, "phys_suite", Strip(phys_suites[1])),
                 PhysNl(Strip(phys_suites[1])))

\* The branch for several suites, taking the first one when none is selected.
ccpp_many_suites_first(physics_suites, phys_suites, phys_nl_val, attr_dict, nl_dict) ==
    LET Matches == {k \in 1..Len(phys_suites) : phys_nl_val = Strip(phys_suites[k])}
    IN  IF phys_nl_val # S_UNSET
        THEN IF Matches # {}
             THEN PhysOut(NoErr,
                          DictPut(attr_dict, "phys_suite", Strip(phys_suites[Min(Matches)])),
                          nl_dict)
             ELSE PhysOut(Err("SuiteNotFound", <<phys_nl_val, physics_suites>>),
                          attr_dict, nl_dict)
        ELSE PhysOut(NoErr, DictPut(attr_dict, "phys_suite", Strip(phys_suites[1])),
                     PhysNl(Strip(phys_suites[1])))

\* else: the loop stops at the first suite that equals the selection.
ccpp_many_suites(physics_suites, phys_suites, phys_nl_val, attr_dict, nl_dict) ==
    LET Matches == {k \in 1..Len(phys_suites) : phys_nl_val = Strip(phys_suites[k])}
    IN  IF phys_nl_val # S_UNSET
        THEN IF Matches # {}
             THEN PhysOut(NoErr,
                          DictPut(attr_dict, "phys_suite", Strip(phys_suites[Min(Matches)])),
                          nl_dict)
             ELSE PhysOut(Err("SuiteNotFound", <<phys_nl_val, physics_suites>>),
                          attr_dict, nl_dict)
        ELSE PhysOut(Err("SuiteRequired", physics_suites), attr_dict, nl_dict)

\* ConfigCAM.ccpp_phys_set
ccpp_phys_set(cd, attr_dict, nl_dict) ==
    LET physics_suites == get_value(cd, "physics_suites").ret.s
        phys_suites == SplitOn(physics_suites, ";")
        phys_nl_val == Strip(nl_dict.physics_suite.values)
    IN  IF Len(phys_suites) = 1
        THEN ccpp_one_suite(phys_suites, phys_nl_val, attr_dict, nl_dict)
        ELSE ccpp_many_suites(physics_suites, phys_suites, phys_nl_val, attr_dict, nl_dict)

----------------------------------------------------------------------------
(* ConfigCAM.generate_cam_src.  The generators of cam_autogen and the build    *)
(* cache of cam_build_cache are not part of the source at hand: a generator    *)
(* either raises or returns, and what it returns is an input of the call.      *)

DoGetValue(name) == [op |-> "get_value", name |-> name]

\* A call of one of the three generators; fails names the generator that raises.
DoGenerate(name, fails) == [op |-> "generate", name |-> name, fails |-> fails]

DoNmlExtend(groups) == [op |-> "nml_extend", groups |-> groups]

DoCacheWrite == [op |-> "cache_write"]

\* What the generators do in one call of generate_cam_src.
GenOutcome(fails, reg_dir, phys_dirs, nl_groups, init_dir) ==
    [fails |-> fails, reg_dir |-> reg_dir, phys_dirs |-> phys_dirs,
     nl_groups |-> nl_groups, init_dir |-> init_dir]

\* The statements with the write of the build cache ahead of the init routines.
generate_cam_src_steps_early(out) ==
    <<DoGetValue("dyn"),
      DoGetValue("physics_suites"),
      DoGenerate("generate_registry", out.fails),
      DoCreate("reg_dir", StrV(out.reg_dir), VNone, "none", FALSE),
      DoGenerate("generate_physics_suites", out.fails),
      DoNmlExtend(out.nl_groups),
      DoCreate("phys_dirs", StrV(Join(out.phys_dirs, ";")), VNone, "none", FALSE),
      DoCacheWrite,
      DoGenerate("generate_init_routines", out.fails),
      DoCreate("init_dir", StrV(out.init_dir), VNone, "none", FALSE)>>

\* The statements of generate_cam_src, in the order of the source.
generate_cam_src_steps(out) ==
    <<DoGetValue("dyn"),
      DoGetValue("physics_suites"),
      DoGenerate("generate_registry", out.fails),
      DoCreate("reg_dir", StrV(out.reg_dir), VNone, "none", FALSE),
      DoGenerate("generate_physics_suites", out.fails),
      DoNmlExtend(out.nl_groups),
      DoCreate("phys_dirs", StrV(Join(out.phys_dirs, ";")), VNone, "none", FALSE),
      DoGenerate("generate_init_routines", out.fails),
      DoCreate("init_dir", StrV(out.init_dir), VNone, "none", FALSE),
      DoCacheWrite>>

\* The name under which a statement of generate_cam_src is recorded.
GenLabel(st) ==
    CASE st.op = "generate" -> st.name
      [] st.op = "create_config" -> "create " \o st.name
      [] st.op = "nml_extend" -> "extend nml_groups"
      [] st.op = "cache_write" -> "build_cache.write"
      [] OTHER -> ""

\* One statement of generate_cam_src on g: the object, the statements begun so
\* far (history), and the number of writes of the build cache.
GenStep(g, st) ==
    LET o == g.o
        after ==
          CASE st.op = "get_value" ->
                 IF st.name \in DOMAIN o.config_dict THEN o
                 ELSE Raise(o, get_value(o.config_dict, st.name).err)
            [] st.op = "generate" ->
                 IF st.fails = st.name THEN Raise(o, Err("Generator", st.name)) ELSE o
            [] st.op = "nml_extend" -> [o EXCEPT !.nml_groups = @ \o st.groups]
            [] st.op = "cache_write" -> o
            [] OTHER -> Step(o, st)
    IN  [o |-> after,
         trace |-> IF GenLabel(st) = "" THEN g.trace ELSE Append(g.trace, GenLabel(st)),
         writes |-> IF st.op = "cache_write" THEN g.writes + 1 ELSE g.writes]

\* The statements in order; nothing runs after a statement that raised.
RECURSIVE RunGen(_, _)
RunGen(g, steps) ==
    IF Len(steps) = 0 \/ Failed(g.o) THEN g
    ELSE CHOOSE r \in {RunGen(x, Tail(steps)) : x \in {GenStep(g, Head(steps))}} : TRUE

\* ConfigCAM.generate_cam_src
generate_cam_src(o, writes, out) ==
    RunGen([o |-> o, trace |-> <<>>, writes |-> writes], generate_cam_src_steps(out))

----------------------------------------------------------------------------
(* The host cases the constructor is run on *)

\* Grid names: each base with each ending.
GridBases ==
    {<<"1", ".", "9", "x", "2", ".", "5">>, <<"0", ".", "9", "x", "1", ".", "2", "5">>, <<"1", "0", "x", "1", "5">>,
     <<"1", ".", "9", "x">>, <<"n", "e", "3", "0", "n", "p", "4">>, <<"n", "e", "3", "0", "n", "p", "4", ".", "p", "g", "3">>,
     <<"n", "e", "3", "0", "n", "p", "4", ".", "p", "g", "2">>, <<"n", "e", "3", "0", "p", "g", "3">>, <<"n", "e", "5", "n", "p", "8">>,
     <<"n", "e", "1", "2", "0", "n", "p", "4", ".", "p", "g", "3">>, <<"n", "e", "3", "0", "n", "p", "9">>, <<"n", "e", "3", "0", "n", "p", "0">>,
     <<"n", "e", "3", "0", "n", "p">>, <<"n", "e", "n", "p", "4">>, <<"n", "e", "0", "3", "0", "n", "p", "4">>,
     <<"C", "9", "6">>, <<"C">>, <<"m", "p", "a", "s", "a", "1", "2", "0">>,
     <<"m", "p", "a", "s", "a">>, <<"m", "p", "a", "s", "1", "2", "0">>, <<"T", "4", "2">>,
     <<"T">>, <<"n", "u", "l", "l">>, <<"f", "1", "9", "_", "f", "1", "9", "_", "m", "g", "1", "7">>,
     <<"a", "T", "4", "2">>, <<"n", "e", "3", "0">>,
     <<"n", "e", "3", "0", "n", "p", "4", ".", "p", "g">>}

GridEndings ==
    {<<>>, <<"z", "3", "2">>, <<"z", "5">>, <<"z">>,
     <<".", "p", "g", "3">>, <<"p", "g", "3">>, <<"x">>, <<"9">>,
     <<"z", "3", "2", "z", "5">>, <<"z", "3", "2", "x">>,
     <<"_", "1">>, <<" ">>, <<"-", "3">>}

AtmGrids == {b \o e : b \in GridBases, e \in GridEndings}

S_bogus == <<"x", "y">>

\* --dyn: absent, each valid value, and one that is not valid.
DynOpts == {<<>>, S_eul, S_fv, S_se, S_fv3, S_mpas, S_none, S_bogus}

S_xocn == <<"x", "o", "c", "n">>
S_kessler == <<"k", "e", "s", "s", "l", "e", "r">>
S_adiabatic == <<"a", "d", "i", "a", "b", "a", "t", "i", "c">>
S_101 == <<"1", "0", "1">>
S_date == <<"2", "0", "0", "0", "-", "0", "1", "-", "0", "1">>

\* CAM_CPPDEFS strings: unset, the self-test's two definitions, one that already
\* holds a define of the spectral-element core, one that names a symbol twice.
Cpp_UNSET == S_UNSET
Cpp_TEST  == <<"-", "D", "T", "E", "S", "T", "_", "C", "P", "P", "D", "E", "F", " ",
               "-", "D", "N", "E", "W", "_", "T", "E", "S", "T", "=", "5">>
Cpp_SPMD  == <<"-", "D", "S", "P", "M", "D">>
Cpp_XX    == <<"-", "D", "X", " ", " ", "-", "D", "X", "=", "1">>

Opts(dyn, analytic_ic, physics_suites) ==
    [dyn |-> dyn, analytic_ic |-> analytic_ic, physics_suites |-> physics_suites,
     dyn_kind |-> S_REAL64, phys_kind |-> S_REAL64]

Case(atm_grid, opts, cam_cppdefs, nthrds, comp_ocn, start_date, debug) ==
    [ATM_GRID |-> atm_grid, opts |-> opts, ATM_NX |-> 180, ATM_NY |-> 90,
     COMP_OCN |-> comp_ocn, CAM_CPPDEFS |-> cam_cppdefs, NTHRDS_ATM |-> nthrds,
     RUN_STARTDATE |-> start_date, DEBUG |-> debug]

\* The case of the module's self-test (FakeCase).
FakeCase ==
    Case(<<"f", "1", "9", "_", "f", "1", "9", "_", "m", "g", "1", "7">>,
         Opts(S_none, FALSE, S_adiabatic), Cpp_TEST, 1, S_socn, S_101, FALSE)

\* The cases grid classification is checked on.
GridCases ==
    {Case(g, Opts(d, FALSE, S_kessler), cpp, n, S_socn, S_date, FALSE) :
        g \in AtmGrids, d \in DynOpts, cpp \in {Cpp_UNSET, Cpp_TEST, Cpp_SPMD},
        n \in {1, 2}}
    \cup
    {Case(g, Opts(<<>>, a, S_kessler), Cpp_UNSET, 1, ocn, S_date, dbg) :
        g \in {<<"T", "4", "2">>, <<"n", "e", "3", "0", "n", "p", "4">>},
        a \in BOOLEAN, ocn \in {S_socn, S_xocn}, dbg \in BOOLEAN}

\* The cases the object's methods are checked on.
LifeCases ==
    {FakeCase,
     Case(<<"1", ".", "9", "x", "2", ".", "5">>, Opts(S_fv, FALSE, S_kessler),
          Cpp_XX, 1, S_socn, S_date, FALSE)}

----------------------------------------------------------------------------
(* The state machine *)

Call(op, name, arg, err, ret) ==
    [op |-> op, name |-> name, arg |-> arg, err |-> err, ret |-> ret]

InitWith(cases) ==
    /\ case \in cases
    /\ phase = "new"
    /\ config_dict = EmptyDict
    /\ nml_groups = <<>>
    /\ cppdefs = <<>>
    /\ last = Call("none", "", "", NoErr, NoneV)
    /\ supplied = EmptyDict
    /\ cam_nml_attr_dict = EmptyDict
    /\ phys_nl_pg_dict = PhysNl(S_UNSET)
    /\ build_cache = 0

Init == InitWith(LifeCases)

InitGrid == InitWith(GridCases)

\* The object as the methods see it.
Self == Obj(config_dict, nml_groups, cppdefs, NoErr)

\* ConfigCAM(case, logger)
Construct ==
    /\ phase = "new"
    /\ LET o == ConfigCAM_init(case)
       IN  /\ phase' = IF Failed(o) THEN "failed" ELSE "ready"
           /\ config_dict' = o.config_dict
           /\ nml_groups' = o.nml_groups
           /\ cppdefs' = o.cppdefs
           /\ last' = Call("__init__", "", "", o.err, NoneV)
           /\ supplied' = EmptyDict
    /\ UNCHANGED <<case, cam_nml_attr_dict, phys_nl_pg_dict, build_cache>>

\* The names, values and constraints the methods are called with.
Names == {"test_int", "test_str", "dyn"}

S_x == <<"x">>

\* (value, valid_vals, valid_list_type) of a create_config call.
CreateArgs ==
    {<<IntV(5), VNone, "none">>, <<IntV(0), VRange(1), "none">>,
     <<StrV(S_x), VNone, "none">>,
     <<ListV(<<IntV(1), IntV(2)>>), VNone, "none">>,
     <<DictV, VNone, "none">>}

SetArgs == {IntV(0), StrV(S_fv), ListV(<<IntV(1), IntV(2)>>)}

\* config.create_config(name, desc, val, valid_vals, valid_list_type)
CreateConfig ==
    /\ phase = "ready"
    /\ \E name \in Names, a \in CreateArgs :
         LET o == create_config(Self, name, a[1], a[2], a[3], FALSE)
         IN  /\ config_dict' = o.config_dict
             /\ last' = Call("create_config", name, a, o.err, NoneV)
             /\ supplied' = IF Failed(o) THEN supplied
                            ELSE [n \in DOMAIN supplied \cup {name} |->
                                     IF n = name THEN a[1] ELSE supplied[n]]
    /\ UNCHANGED <<case, phase, nml_groups, cppdefs, cam_nml_attr_dict, phys_nl_pg_dict,
                   build_cache>>

\* config.set_value(obj_name, val)
SetValue ==
    /\ phase = "ready"
    /\ \E name \in Names, val \in SetArgs :
         LET o == set_value(Self, name, val)
         IN  /\ config_dict' = o.config_dict
             /\ last' = Call("set_value", name, val, o.err, NoneV)
             /\ supplied' = IF Failed(o) THEN supplied
                            ELSE [n \in DOMAIN supplied \ {name} |-> supplied[n]]
    /\ UNCHANGED <<case, phase, nml_groups, cppdefs, cam_nml_attr_dict, phys_nl_pg_dict,
                   build_cache>>

\* config.get_value(obj_name)
GetValue ==
    /\ phase = "ready"
    /\ \E name \in Names :
         LET r == get_value(config_dict, name)
         IN  last' = Call("get_value", name, "", r.err, r.ret)
    /\ UNCHANGED <<case, phase, config_dict, nml_groups, cppdefs, supplied,
                   cam_nml_attr_dict, phys_nl_pg_dict, build_cache>>

\* The symbols and values add_cppdef is called with.
CppNames == {<<"X">>, <<"X", "Y">>, <<"N", "E", "W", "_", "T", "E", "S", "T">>}

CppValues == {NoneV, IntV(100)}

\* config.add_cppdef(cppname, value)
AddCppdef ==
    /\ phase = "ready"
    /\ Len(cppdefs) < MaxDefs
    /\ \E cppname \in CppNames, value \in CppValues :
         LET o == add_cppdef(Self, cppname, value)
         IN  /\ cppdefs' = o.cppdefs
             /\ last' = Call("add_cppdef", "", <<cppname, value>>, o.err, NoneV)
    /\ UNCHANGED <<case, phase, config_dict, nml_groups, supplied, cam_nml_attr_dict,
                   phys_nl_pg_dict, build_cache>>

\* The --physics-suites lists of the cases ccpp_phys_set is checked on.
S_musica == <<"m", "u", "s", "i", "c", "a">>

SuiteLists ==
    {S_kessler, S_kessler \o <<"\t">>, S_kessler \o <<";">> \o S_musica,
     S_musica \o <<";">> \o S_kessler \o <<";">> \o S_adiabatic}

\* The cases generate_cam_src and ccpp_phys_set are checked on.
BuildCases ==
    {Case(g, Opts(<<>>, FALSE, ps), Cpp_UNSET, 1, S_socn, S_date, FALSE) :
        g \in {<<"T", "4", "2">>, <<"n", "e", "3", "0", "n", "p", "4">>},
        ps \in SuiteLists}

InitBuild == InitWith(BuildCases)

\* The values of physics_suite in user_nl_cam: unset, and suites with and without
\* white space around them.
Selections ==
    {S_UNSET, <<" ">> \o S_UNSET \o <<"\n">>, S_kessler, <<" ">> \o S_kessler \o <<" ">>,
     S_musica, <<"K", "e", "s", "s", "l", "e", "r">>}

\* config.ccpp_phys_set(cam_nml_attr_dict, phys_nl_pg_dict), on an empty attribute
\* dictionary and a namelist dictionary that holds the selection.
CcppPhysSet ==
    /\ phase = "ready"
    /\ \E sel \in Selections :
         LET r == ccpp_phys_set(config_dict, EmptyDict, PhysNl(sel))
         IN  /\ cam_nml_attr_dict' = r.cam_nml_attr_dict
             /\ phys_nl_pg_dict' = r.phys_nl_pg_dict
             /\ last' = Call("ccpp_phys_set", "", sel, r.err, NoneV)
    /\ UNCHANGED <<case, phase, config_dict, nml_groups, cppdefs, supplied, build_cache>>

\* What the generators are taken to return, and which of them raises.
GenOutcomes ==
    {GenOutcome(f, <<"/", "r">>, pd, nl, <<"/", "i">>) :
        f \in {"none", "generate_registry", "generate_physics_suites",
               "generate_init_routines"},
        pd \in {<<<<"/", "p">>>>, <<<<"/", "p">>, <<"/", "q">>>>},
        nl \in {<<>>, <<"kessler_nl">>}}

\* config.generate_cam_src(gen_fort_indent)
GenerateCamSrc ==
    /\ phase = "ready"
    /\ \E out \in GenOutcomes :
         LET g == generate_cam_src(Self, build_cache, out)
         IN  /\ config_dict' = g.o.config_dict
             /\ nml_groups' = g.o.nml_groups
             /\ build_cache' = g.writes
             /\ last' = Call("generate_cam_src", "", out, g.o.err, g.trace)
    /\ UNCHANGED <<case, phase, cppdefs, supplied, cam_nml_attr_dict, phys_nl_pg_dict>>

Next == Construct \/ CreateConfig \/ SetValue \/ GetValue \/ AddCppdef

Spec == Init /\ [][Next]_vars

NextGrid == Construct

SpecGrid == InitGrid /\ [][NextGrid]_vars

NextBuild == Construct \/ CcppPhysSet \/ GenerateCamSrc

SpecBuild == InitBuild /\ [][NextBuild]_vars

----------------------------------------------------------------------------
(* The registry: create_config, get_value, set_value *)

\* The kinds of value create_config takes.
Accepted(a) == a[1].kind \in {"int", "str", "list"}

\* Whether the value of a create_config call satisfies the constraint given with it.
Satisfies(a) ==
    /\ Validates(a[1], a[2])
    /\ a[1].kind = "list" => ListValidates(a[1], a[3])

\* C1 as stated: create_config of an integer, string or list on a name the
\* registry holds always fails with the duplicate-name error and leaves the
\* registry as it was.
C1_AsStated ==
    [][(last'.op = "create_config" /\ last'.name \in DOMAIN config_dict
            /\ Accepted(last'.arg))
       => (last'.err.kind = "DuplicateName" /\ config_dict' = config_dict)]_vars

\* C1: create_config of an integer, string or list on a name the registry holds
\* always fails and leaves the registry as it was, never overwriting the entry;
\* the error is the duplicate-name error (a CamConfigValError) when the value
\* satisfies the constraint given with it, and the configure object's own
\* validation error, raised before the name is looked up, when it does not.
C1_DuplicateName ==
    [][(last'.op = "create_config" /\ last'.name \in DOMAIN config_dict
            /\ Accepted(last'.arg))
       => /\ config_dict' = config_dict
          /\ Satisfies(last'.arg) =>
                /\ last'.err.kind = "DuplicateName"
                /\ ErrClass(last'.err.kind) = "CamConfigValError"
          /\ ~Satisfies(last'.arg) => last'.err.kind = "Validation"]_vars

\* A duplicate create_config has just failed on a name made by an earlier
\* create_config, after set_value and add_cppdef calls have gone through.
C1_Witness ==
    /\ last.op = "create_config"
    /\ last.err.kind = "DuplicateName"
    /\ last.name = "test_int"
    /\ last.arg[1].kind = "list"
    /\ config_dict["test_int"].value = IntV(0)
    /\ Len(cppdefs) > Len(SeedCppdefs(case.CAM_CPPDEFS))

\* C2: get_value of a name returns exactly the integer, string or list that
\* create_config was given for it with no constraint, whatever create_config
\* calls on other names have followed; the registry holds that value for as long
\* as no set_value touches the name.
C2_RoundTrip ==
    /\ \A n \in DOMAIN supplied :
          n \in DOMAIN config_dict /\ config_dict[n].value = supplied[n]
    /\ (last.op = "get_value" /\ last.name \in DOMAIN supplied)
       => (last.err.kind = "none" /\ last.ret = supplied[last.name])

\* get_value has just returned the list given for one name while another name,
\* created with an integer, is in the registry too.
C2_Witness ==
    /\ last.op = "get_value"
    /\ last.name = "test_str"
    /\ DOMAIN supplied = {"test_int", "test_str"}
    /\ supplied["test_str"] = ListV(<<IntV(1), IntV(2)>>)
    /\ supplied["test_int"] = IntV(5)
    /\ last.ret = ListV(<<IntV(1), IntV(2)>>)

\* C3: create_config with a value that is not an integer, string or list fails
\* with the type error (CamConfigTypeError) and leaves the registry as it was,
\* also when the name is one the registry already holds.
C3_TypeBeforeName ==
    [][(last'.op = "create_config" /\ ~Accepted(last'.arg))
       => /\ last'.err.kind = "TypeMismatch"
          /\ ErrClass(last'.err.kind) = "CamConfigTypeError"
          /\ config_dict' = config_dict]_vars

\* A dict has just been offered under a name the registry holds.
C3_Witness ==
    /\ last.op = "create_config"
    /\ last.arg[1].kind = "dict"
    /\ last.name \in DOMAIN config_dict
    /\ last.err.kind = "TypeMismatch"

\* C4: get_value and set_value of a name the registry does not hold fail with the
\* unknown-name error, whatever the value; set_value of a name it holds fails with
\* the type error when the value is neither an integer nor a string; get_value
\* and every failing set_value leave the registry as it was.
C4_UnknownName ==
    [][/\ last'.op = "get_value" =>
            /\ last'.name \notin DOMAIN config_dict => last'.err.kind = "UnknownName"
            /\ last'.name \in DOMAIN config_dict => last'.err.kind = "none"
            /\ config_dict' = config_dict
       /\ last'.op = "set_value" =>
            /\ last'.name \notin DOMAIN config_dict =>
                  /\ last'.err.kind = "UnknownName"
                  /\ ErrClass(last'.err.kind) = "CamConfigValError"
            /\ (last'.name \in DOMAIN config_dict
                   /\ last'.arg.kind \notin {"int", "str"}) =>
                  /\ last'.err.kind = "TypeMismatch"
                  /\ ErrClass(last'.err.kind) = "CamConfigTypeError"
            /\ last'.err.kind # "none" => config_dict' = config_dict]_vars

\* set_value has just been given a list for a name the registry does not hold.
C4_Witness ==
    /\ last.op = "set_value"
    /\ last.name \notin DOMAIN config_dict
    /\ last.arg.kind = "list"
    /\ last.err.kind = "UnknownName"

----------------------------------------------------------------------------
(* The CPP definitions: add_cppdef and the list seeded from CAM_CPPDEFS *)

\* C5: add_cppdef(symbol, value) fails with the duplicate-define error exactly
\* when an entry of the define list is "-D<symbol>" or starts with "-D<symbol>=";
\* an entry whose symbol only starts with, or is only the start of, the new
\* symbol does not count.
C5_DuplicateDefine ==
    [][last'.op = "add_cppdef" =>
         LET sym == last'.arg[1]
             hit == \E i \in 1..Len(cppdefs) :
                       \/ cppdefs[i] = <<"-", "D">> \o sym
                       \/ StartsWith(cppdefs[i], <<"-", "D">> \o sym \o <<"=">>)
         IN  /\ last'.err.kind = "DuplicateDefine" <=> hit
             /\ last'.err.kind \in {"DuplicateDefine", "none"}
             /\ ErrClass("DuplicateDefine") = "CamConfigValError"]_vars

\* X has just been refused because of "-DX=1", on a list to which XY was added
\* after X without complaint.
C5_Witness ==
    /\ last.op = "add_cppdef"
    /\ last.arg[1] = <<"X">>
    /\ last.err.kind = "DuplicateDefine"
    /\ cppdefs = <<<<"-", "D", "X">>, <<"-", "D", "X", "=", "1">>,
                   <<"-", "D", "X", "Y">>>>

\* C6: no symbol is in two entries of the define list, "-DSYM" and "-DSYM=VALUE"
\* both being entries of SYM.
C6_NoSymbolTwice ==
    \A i, j \in 1..Len(cppdefs) :
        LET sym(e) == LET body == Slice(e, 2, Len(e))
                          k    == Find(body, <<"=">>)
                      IN  IF k = -1 THEN body ELSE Slice(body, 0, k)
        IN  sym(cppdefs[i]) = sym(cppdefs[j]) => i = j

\* C7: a successful add_cppdef(symbol, value) appends one entry, "-D<symbol>" for
\* value None and "-D<symbol>=<value>" otherwise, and a refused one changes
\* nothing; the list a step finds is a prefix of the list it leaves, and the
\* entries of CAM_CPPDEFS stay at the front in their order.
C7_AppendOnly ==
    [][/\ last'.op = "add_cppdef" =>
            LET sym == last'.arg[1]
                val == last'.arg[2]
                new == IF val.kind = "none" THEN <<"-", "D">> \o sym
                       ELSE <<"-", "D">> \o sym \o <<"=">> \o IntToStr(val.i)
            IN  /\ last'.err.kind = "none" => cppdefs' = Append(cppdefs, new)
                /\ last'.err.kind # "none" => cppdefs' = cppdefs
       /\ Len(cppdefs) <= Len(cppdefs')
       /\ SubSeq(cppdefs', 1, Len(cppdefs)) = cppdefs
       /\ LET seed == SeedCppdefs(case.CAM_CPPDEFS)
          IN  Len(seed) <= Len(cppdefs') /\ SubSeq(cppdefs', 1, Len(seed)) = seed]_vars

\* A flag and a definition with a value have been added, in that order, behind
\* the two entries CAM_CPPDEFS brought.
C7_Witness ==
    /\ last.op = "add_cppdef"
    /\ last.err.kind = "none"
    /\ cppdefs = <<<<"-", "D", "T", "E", "S", "T", "_", "C", "P", "P", "D", "E", "F">>,
                   <<"-", "D", "N", "E", "W", "_", "T", "E", "S", "T", "=", "5">>,
                   <<"-", "D", "X", "Y">>,
                   <<"-", "D", "X", "=", "1", "0", "0">>>>

----------------------------------------------------------------------------
(* The constructor: grid classification, --dyn, the spectral-element values *)

\* The working grid token: the legacy name rewritten and the level suffix cut
\* off, or "null" when the user asked for no dynamics.
Token ==
    IF case.opts.dyn = S_none THEN S_null
    ELSE StripLevels(TranslateAlias(case.ATM_GRID))

\* The core of the first of the five patterns, in the order finite-volume,
\* spectral-element, FV3, MPAS, Eulerian, that matches a prefix of the token; the
\* empty string when none does.
Implied ==
    IF ReMatch(fv_grid_re, Token) THEN S_fv
    ELSE IF ReMatch(se_grid_re, Token) THEN S_se
    ELSE IF ReMatch(fv3_grid_re, Token) THEN S_fv3
    ELSE IF ReMatch(mpas_grid_re, Token) THEN S_mpas
    ELSE IF ReMatch(eul_grid_re, Token) THEN S_eul
    ELSE <<>>

\* The constructor has run as far as the classification of the grid.
Classified == phase # "new" /\ last.err.kind # "InvalidDycore"

\* The value the registry holds for a name.
Value(n) == config_dict[n].value

\* C8: once the constructor has classified the grid, dyn is the core of the first
\* pattern (finite-volume, spectral-element, FV3, MPAS, Eulerian) that matches a
\* prefix of the working token and hgrid is that token; "1.9x2.5", "ne30np4",
\* "C96", "mpasa120" and "T42" give fv, se, fv3, mpas and eul; a token that matches
\* no pattern and is not "null" fails the construction with the unknown-grid
\* error (a CamConfigValError) naming it.
C8_Classification ==
    Classified =>
      /\ Implied # <<>> =>
            /\ {"dyn", "hgrid"} \subseteq DOMAIN config_dict
            /\ Value("dyn") = StrV(Implied)
            /\ Value("hgrid") = StrV(Token)
      /\ \A e \in {<<<<"1", ".", "9", "x", "2", ".", "5">>, S_fv>>,
                   <<<<"n", "e", "3", "0", "n", "p", "4">>, S_se>>,
                   <<<<"C", "9", "6">>, S_fv3>>,
                   <<<<"m", "p", "a", "s", "a", "1", "2", "0">>, S_mpas>>,
                   <<<<"T", "4", "2">>, S_eul>>} :
            (case.ATM_GRID = e[1] /\ case.opts.dyn # S_none) =>
                /\ {"dyn", "hgrid"} \subseteq DOMAIN config_dict
                /\ Value("dyn") = StrV(e[2])
                /\ Value("hgrid") = StrV(e[1])
      /\ (Implied = <<>> /\ Token # S_null) =>
            /\ phase = "failed"
            /\ last.err.kind = "UnknownGrid"
            /\ last.err.what = Token
            /\ ErrClass(last.err.kind) = "CamConfigValError"
            /\ "dyn" \notin DOMAIN config_dict

\* A grid whose name only starts like an Eulerian one has been classified.
C8_Witness ==
    /\ phase = "ready"
    /\ case.ATM_GRID = <<"T", "4", "2", "x">>
    /\ Value("dyn") = StrV(S_eul)
    /\ Value("hgrid") = StrV(<<"T", "4", "2", "x">>)

\* C9: for the spectral-element core, csne is the integer between the leading
\* "ne" and the first "np", csnp the integer between that "np" and the first
\* ".pg" (or the end of the token without one), npg the integer behind ".pg" (0
\* without one), and "-DNP=<csnp>" is among the definitions; "ne30np4" gives 30, 4
\* and 0, "ne30np4.pg2" gives npg 2, and "ne30pg3" is read as "ne30np4.pg3": 30, 4
\* and 3.
C9_SeDecode ==
    (phase = "ready" /\ Value("dyn") = StrV(S_se)) =>
      LET t     == Token
          At(w) == {i \in 1..Len(t) : StartsWith(SubSeq(t, i, Len(t)), w)}
          np    == Min(At(<<"n", "p">>))
          pgs   == At(<<".", "p", "g">>)
          pg    == IF pgs = {} THEN Len(t) + 1 ELSE Min(pgs)
      IN  /\ SubSeq(t, 1, 2) = <<"n", "e">>
          /\ Value("hgrid") = StrV(t)
          /\ Value("csne") = IntV(PyInt(SubSeq(t, 3, np - 1)).v)
          /\ Value("csnp") = IntV(PyInt(SubSeq(t, np + 2, pg - 1)).v)
          /\ Value("npg") = IF pgs = {} THEN IntV(0)
                            ELSE IntV(PyInt(SubSeq(t, pg + 3, Len(t))).v)
          /\ \E i \in 1..Len(cppdefs) :
                cppdefs[i] = <<"-", "D", "N", "P", "=">> \o IntToStr(Value("csnp").i)
          /\ case.ATM_GRID = <<"n", "e", "3", "0", "n", "p", "4">> =>
                Value("csne") = IntV(30) /\ Value("csnp") = IntV(4)
                    /\ Value("npg") = IntV(0)
          /\ case.ATM_GRID = <<"n", "e", "3", "0", "n", "p", "4", ".", "p", "g", "2">> =>
                Value("npg") = IntV(2)
          /\ case.ATM_GRID = S_ne30pg3 =>
                Value("csne") = IntV(30) /\ Value("csnp") = IntV(4)
                    /\ Value("npg") = IntV(3)

\* The legacy name has been decoded.
C9_Witness ==
    /\ phase = "ready"
    /\ case.ATM_GRID = S_ne30pg3
    /\ Value("hgrid") = StrV(S_ne30np4_pg3)
    /\ Value("csne") = IntV(30)
    /\ Value("npg") = IntV(3)
    /\ cppdefs[Len(cppdefs)] = <<"-", "D", "N", "P", "=", "4">>

\* --dyn is one of the five cores and the token matches one of the five patterns.
DynGiven == case.opts.dyn \in {S_eul, S_fv, S_se, S_fv3, S_mpas}

\* C10 as stated: a --dyn that differs from the core the grid implies always fails
\* the construction with the dycore-mismatch error, one that agrees never does,
\* and without --dyn the registered dyn is the core the grid implies.
C10_AsStated ==
    (phase # "new" /\ Implied # <<>>) =>
      /\ (DynGiven /\ case.opts.dyn # Implied) =>
            phase = "failed" /\ last.err.kind = "DycoreMismatch"
      /\ (DynGiven /\ case.opts.dyn = Implied) => last.err.kind # "DycoreMismatch"
      /\ case.opts.dyn = <<>> => Value("dyn") = StrV(Implied)

\* C10: a --dyn that differs from the core the grid implies always fails the
\* construction: with the dycore-mismatch error (a CamConfigValError), unless the
\* grid is a spectral-element one and CAM_CPPDEFS already sets _MPI, SPMD or (with
\* more than one thread) _OPENMP, for then the duplicate-define error of the
\* spectral-element branch comes first; a --dyn that agrees never gives the
\* mismatch error; without --dyn the registered dyn is the core the grid implies.
C10_DynMismatch ==
    (phase # "new" /\ Implied # <<>>) =>
      LET seed   == SeedCppdefs(case.CAM_CPPDEFS)
          Set(y) == \E i \in 1..Len(seed) :
                       \/ seed[i] = <<"-", "D">> \o y
                       \/ StartsWith(seed[i], <<"-", "D">> \o y \o <<"=">>)
          early  == /\ Implied = S_se
                    /\ \/ Set(S__MPI)
                       \/ Set(S_SPMD)
                       \/ case.NTHRDS_ATM > 1 /\ Set(S__OPENMP)
      IN  /\ (DynGiven /\ case.opts.dyn # Implied) =>
                /\ phase = "failed"
                /\ early => last.err.kind = "DuplicateDefine"
                /\ ~early =>
                      /\ last.err.kind = "DycoreMismatch"
                      /\ last.err.what = <<case.opts.dyn, Implied>>
                      /\ ErrClass(last.err.kind) = "CamConfigValError"
          /\ (DynGiven /\ case.opts.dyn = Implied) => last.err.kind # "DycoreMismatch"
          /\ case.opts.dyn = <<>> => Value("dyn") = StrV(Implied)

\* --dyn mpas has been refused for an FV3 grid.
C10_Witness ==
    /\ phase = "failed"
    /\ case.ATM_GRID = <<"C", "9", "6">>
    /\ case.opts.dyn = S_mpas
    /\ last.err.kind = "DycoreMismatch"
    /\ Value("dyn") = StrV(S_fv3)

\* C11: with --dyn none the grid token is "null" whatever ATM_GRID is: the
\* constructor registers dyn "none", hgrid "null", nlat "null", nlon "null" and
\* dyn_src_dirs ["none"], and raises neither the unknown-grid nor the
\* dycore-mismatch error.
C11_DynNone ==
    (phase # "new" /\ case.opts.dyn = S_none) =>
      /\ Token = S_null
      /\ {"dyn", "hgrid", "nlat", "nlon", "dyn_src_dirs"} \subseteq DOMAIN config_dict
      /\ Value("dyn") = StrV(S_none)
      /\ Value("hgrid") = StrV(S_null)
      /\ Value("nlat") = StrV(S_null)
      /\ Value("nlon") = StrV(S_null)
      /\ Value("dyn_src_dirs") = ListV(<<StrV(S_none)>>)
      /\ last.err.kind \notin {"UnknownGrid", "DycoreMismatch"}

\* A spectral-element grid name with a level suffix has been given with --dyn none.
C11_Witness ==
    /\ phase = "ready"
    /\ case.opts.dyn = S_none
    /\ case.ATM_GRID = <<"n", "e", "3", "0", "n", "p", "4", "z", "3", "2">>
    /\ Value("hgrid") = StrV(S_null)
    /\ Value("nlat") = StrV(S_null)

\* The suites of --physics-suites as ccpp_phys_set sees them.
Declared == SplitOn(get_value(config_dict, "physics_suites").ret.s, ";")

\* The trimmed selection of the last call of ccpp_phys_set.
Selected == Strip(last.arg)

Resolving == phase = "ready" /\ last.op = "ccpp_phys_set"

\* C12: with one declared suite, a selection that is UNSET after trimming, or equal
\* to the trimmed suite, resolves without error, and cam_nml_attr_dict['phys_suite']
\* is the trimmed suite.
C12_OneSuite ==
    (Resolving /\ Len(Declared) = 1
        /\ (Selected = S_UNSET \/ Selected = Strip(Declared[1])))
    => /\ last.err.kind = "none"
       /\ DOMAIN cam_nml_attr_dict = {"phys_suite"}
       /\ cam_nml_attr_dict["phys_suite"] = Strip(Declared[1])

C12_Witness ==
    /\ Resolving
    /\ Declared = <<S_kessler \o <<"\t">>>>
    /\ last.arg = <<" ">> \o S_kessler \o <<" ">>
    /\ last.err.kind = "none"
    /\ cam_nml_attr_dict["phys_suite"] = S_kessler

\* C13: with one declared suite, an explicit selection that differs from it fails
\* with a CamConfigValError, not with a failure of another kind.
C13_MismatchError ==
    (Resolving /\ Len(Declared) = 1
        /\ Selected # S_UNSET /\ Selected # Strip(Declared[1]))
    => ErrClass(last.err.kind) = "CamConfigValError"

\* C14: with several declared suites, UNSET fails with the suite-required error, a
\* selection equal to none of the trimmed suites fails with the suite-not-found
\* error, and a selection equal to one of them resolves to it.
C14_ManySuites ==
    (Resolving /\ Len(Declared) > 1)
    => LET Trimmed == {Strip(Declared[k]) : k \in 1..Len(Declared)}
       IN  /\ Selected = S_UNSET
                => last.err.kind = "SuiteRequired" /\ cam_nml_attr_dict = EmptyDict
           /\ (Selected # S_UNSET /\ Selected \notin Trimmed)
                => last.err.kind = "SuiteNotFound" /\ cam_nml_attr_dict = EmptyDict
           /\ Selected \in Trimmed
                => /\ last.err.kind = "none"
                   /\ DOMAIN cam_nml_attr_dict = {"phys_suite"}
                   /\ cam_nml_attr_dict["phys_suite"] = Selected

C14_Witness ==
    /\ Resolving
    /\ Len(Declared) = 3
    /\ last.arg = <<" ">> \o S_kessler \o <<" ">>
    /\ last.err.kind = "none"
    /\ cam_nml_attr_dict["phys_suite"] = S_kessler

Resolved == Resolving /\ last.err.kind = "none"

\* C15 as stated: after a successful resolution both dictionaries hold the trimmed
\* resolved suite.
C15_AsStated ==
    Resolved
    => /\ phys_nl_pg_dict.physics_suite.values = cam_nml_attr_dict["phys_suite"]
       /\ cam_nml_attr_dict["phys_suite"] \in {Strip(Declared[k]) : k \in 1..Len(Declared)}

\* C15: after a successful resolution cam_nml_attr_dict['phys_suite'] is the trimmed
\* resolved suite; the namelist value is rewritten to it only when the selection
\* was UNSET, and is otherwise left as it was given, equal to the suite once trimmed.
C15_BothDicts ==
    Resolved
    => /\ cam_nml_attr_dict["phys_suite"] \in {Strip(Declared[k]) : k \in 1..Len(Declared)}
       /\ Strip(phys_nl_pg_dict.physics_suite.values) = cam_nml_attr_dict["phys_suite"]
       /\ phys_nl_pg_dict.physics_suite.values =
              IF Selected = S_UNSET THEN cam_nml_attr_dict["phys_suite"] ELSE last.arg

C15_Witness ==
    /\ Resolved
    /\ last.arg = <<" ">> \o S_kessler \o <<" ">>
    /\ phys_nl_pg_dict.physics_suite.values = <<" ">> \o S_kessler \o <<" ">>
    /\ cam_nml_attr_dict["phys_suite"] = S_kessler

\* The definitions the constructor added behind those of CAM_CPPDEFS.
AddedDefs ==
    SubSeq(cppdefs, Len(SeedCppdefs(case.CAM_CPPDEFS)) + 1, Len(cppdefs))

Define(sym) == <<"-", "D">> \o sym

\* Those of the added definitions that are _MPI, SPMD or _OPENMP, in their order.
AddedParallelDefs ==
    SelectSeq(AddedDefs,
              LAMBDA d : d \in {Define(S__MPI), Define(S_SPMD), Define(S__OPENMP)})

SeGroups == {"air_composition_nl", "dyn_se_nl"}

\* C16: a completed construction with the spectral-element core has added the
\* defines _MPI and SPMD, _OPENMP exactly when NTHRDS_ATM > 1, and has appended the
\* groups air_composition_nl and dyn_se_nl; with any other core it has added none
\* of the three defines and neither group; dyn_src_dirs is registered exactly when
\* the core is se or none.
C16_CoreEffects ==
    /\ (phase = "ready" /\ Value("dyn") = StrV(S_se)) =>
          /\ AddedParallelDefs = <<Define(S__MPI), Define(S_SPMD)>>
                 \o (IF case.NTHRDS_ATM > 1 THEN <<Define(S__OPENMP)>> ELSE <<>>)
          /\ SelectSeq(nml_groups, LAMBDA g : g \in SeGroups)
                 = <<"air_composition_nl", "dyn_se_nl">>
    /\ (phase = "ready" /\ Value("dyn") # StrV(S_se)) =>
          /\ AddedParallelDefs = <<>>
          /\ \A i \in 1..Len(nml_groups) : nml_groups[i] \notin SeGroups
    /\ (Classified /\ "dyn" \in DOMAIN config_dict) =>
          ("dyn_src_dirs" \in DOMAIN config_dict
              <=> Value("dyn") \in {StrV(S_se), StrV(S_none)})

\* A spectral-element construction with two threads, behind definitions of
\* CAM_CPPDEFS.
C16_Witness ==
    /\ phase = "ready"
    /\ Value("dyn") = StrV(S_se)
    /\ case.NTHRDS_ATM = 2
    /\ case.CAM_CPPDEFS = Cpp_TEST
    /\ Len(cppdefs) = 6
    /\ cppdefs[5] = Define(S__OPENMP)
    /\ "dyn_src_dirs" \in DOMAIN config_dict

\* The statements of generate_cam_src that act on the object, the generators or
\* the build cache, as the source lists them.
GenOrder ==
    <<"generate_registry", "create reg_dir", "generate_physics_suites",
      "extend nml_groups", "create phys_dirs", "generate_init_routines",
      "create init_dir", "build_cache.write">>

GenDirs == {"reg_dir", "phys_dirs", "init_dir"}

\* C17: what a call of generate_cam_src has begun is an initial part of: registry
\* generation, create reg_dir, physics-suite generation, extend the group list,
\* create phys_dirs, init-routine generation, create init_dir, write the build
\* cache; a call that fails does not write the cache, one that succeeds has run all
\* eight with one write at the end, and leaves the registry with reg_dir,
\* phys_dirs and init_dir in addition to the unchanged entries it had.
C17_FixedOrder ==
    [][last'.op = "generate_cam_src" =>
         LET tr  == last'.ret
             out == last'.arg
         IN  /\ Len(tr) <= Len(GenOrder)
             /\ tr = SubSeq(GenOrder, 1, Len(tr))
             /\ last'.err.kind # "none" =>
                    /\ build_cache' = build_cache
                    /\ \A i \in 1..Len(tr) : tr[i] # "build_cache.write"
             /\ last'.err.kind = "none" =>
                    /\ tr = GenOrder
                    /\ build_cache' = build_cache + 1
                    /\ GenDirs \cap DOMAIN config_dict = {}
                    /\ DOMAIN config_dict' = DOMAIN config_dict \cup GenDirs
                    /\ \A n \in DOMAIN config_dict : config_dict'[n] = config_dict[n]
                    /\ config_dict'["reg_dir"].value = StrV(out.reg_dir)
                    /\ config_dict'["phys_dirs"].value = StrV(Join(out.phys_dirs, ";"))
                    /\ config_dict'["init_dir"].value = StrV(out.init_dir)
                    /\ nml_groups' = nml_groups \o out.nl_groups]_vars

\* A call with two physics directories and one group of a scheme has succeeded.
C17_Witness ==
    /\ last.op = "generate_cam_src"
    /\ last.err.kind = "none"
    /\ last.ret = GenOrder
    /\ build_cache = 1
    /\ GenDirs \subseteq DOMAIN config_dict
    /\ config_dict["phys_dirs"].value = StrV(<<"/", "p", ";", "/", "q">>)
    /\ nml_groups[Len(nml_groups)] = "kessler_nl"

\* The five tests of the cascade: the core and its pattern, in the source's order.
GridTests ==
    <<<<S_fv, fv_grid_re>>, <<S_se, se_grid_re>>, <<S_fv3, fv3_grid_re>>,
      <<S_mpas, mpas_grid_re>>, <<S_eul, eul_grid_re>>>>

\* The cores whose pattern matches a prefix of t.
Matching(t) == {GridTests[i][1] : i \in {k \in 1..5 : ReMatch(GridTests[k][2], t)}}

\* The orders in which the five tests can be made.
TestOrders == {p \in [1..5 -> 1..5] : \A i, j \in 1..5 : p[i] = p[j] => i = j}

\* The core of the first test, in the given order, among the matching ones.
FirstMatch(order, matching) ==
    LET hits == {i \in 1..5 : GridTests[order[i]][1] \in matching}
    IN  IF hits = {} THEN <<>> ELSE GridTests[order[Min(hits)]][1]

\* C18: at most one of the five patterns matches a prefix of the working token
\* (and of the grid name as the case gives it), so the tests made in any order
\* choose the core the cascade chooses, and that is the dyn the constructor
\* registers.
C18_Exclusive ==
    phase # "new" =>
      /\ Cardinality(Matching(case.ATM_GRID)) <= 1
      /\ \A matching \in {Matching(Token)}, core \in {Implied} :
            /\ Cardinality(matching) <= 1
            /\ \A order \in TestOrders : FirstMatch(order, matching) = core
            /\ (Classified /\ core # <<>>) => Value("dyn") = StrV(core)

\* A grid name that one pattern matches, and only one, has been classified.
C18_Witness ==
    /\ phase = "ready"
    /\ case.ATM_GRID = <<"C", "9", "6", "x">>
    /\ Matching(Token) = {S_fv3}
    /\ Value("dyn") = StrV(S_fv3)

\* C19: every token the spectral-element pattern matches is decoded: without a
\* --dyn that disagrees and without definitions in CAM_CPPDEFS the construction
\* completes with integers for csne, csnp and npg; and a construction with a valid
\* --dyn, a valid ocean component and no definitions in CAM_CPPDEFS fails only with
\* the unknown-grid or the dycore-mismatch error.
C19_SeDecodesCompletely ==
    (phase # "new" /\ case.CAM_CPPDEFS = Cpp_UNSET /\ case.COMP_OCN = S_socn
        /\ Classified) =>
      /\ (ReMatch(se_grid_re, Token) /\ case.opts.dyn \in {<<>>, S_se}) =>
            /\ phase = "ready"
            /\ {"csne", "csnp", "npg"} \subseteq DOMAIN config_dict
            /\ \A n \in {"csne", "csnp", "npg"} : Value(n).kind = "int"
      /\ phase = "failed" => last.err.kind \in {"UnknownGrid", "DycoreMismatch"}

\* The ways to read the grid name of the case as G, "z" and a string of digits.
LevelSplits ==
    LET g == case.ATM_GRID
    IN  {k \in 2..(Len(g) - 1) :
            /\ g[k] = "z"
            /\ \A i \in (k + 1)..Len(g) : g[i] \in Digits}

GridParams == {"dyn", "hgrid", "csne", "csnp", "npg", "nlat", "nlon"}

\* C20: when the grid name of the case is G followed by "z" and digits, and G on
\* its own is accepted, the construction completes with the dyn, the hgrid and
\* the grid parameters that G on its own gives.
C20_LevelSuffix ==
    phase # "new" =>
      \A k \in LevelSplits :
        \A o \in {ConfigCAM_init([case EXCEPT !.ATM_GRID = SubSeq(case.ATM_GRID, 1, k - 1)])} :
          ~Failed(o) =>
            /\ phase = "ready"
            /\ GridParams \cap DOMAIN config_dict = GridParams \cap DOMAIN o.config_dict
            /\ \A n \in GridParams \cap DOMAIN o.config_dict :
                  config_dict[n].value = o.config_dict[n].value

\* C21: generate_cam_src completes at most once on an object: the build cache is
\* written at most once, and every call made after a call that completed fails,
\* with the duplicate-name error for reg_dir once the registry generator has
\* returned, having begun nothing beyond the creation of reg_dir, and leaves the
\* group list, every entry of the registry and the build cache as they were.
C21_AtMostOnce ==
    [][/\ build_cache' <= 1
       /\ (last'.op = "generate_cam_src" /\ build_cache >= 1) =>
            /\ last'.err.kind # "none"
            /\ last'.arg.fails # "generate_registry" =>
                  /\ last'.err.kind = "DuplicateName"
                  /\ last'.err.what = "reg_dir"
                  /\ ErrClass(last'.err.kind) = "CamConfigValError"
                  /\ last'.ret = <<"generate_registry", "create reg_dir">>
            /\ last'.arg.fails = "generate_registry" =>
                  last'.ret = <<"generate_registry">>
            /\ nml_groups' = nml_groups
            /\ config_dict' = config_dict
            /\ build_cache' = build_cache]_vars

\* A call after the one that completed has been refused at reg_dir, with the
\* groups of the first call still the last of the list.
C21_Witness ==
    /\ last.op = "generate_cam_src"
    /\ build_cache = 1
    /\ last.err.kind = "DuplicateName"
    /\ last.arg.nl_groups = <<"kessler_nl">>
    /\ last.ret = <<"generate_registry", "create reg_dir">>
    /\ GenDirs \subseteq DOMAIN config_dict

====
